---- MODULE Spec2Model ----
(***************************************************************************)
(* A model of the Chip-8 interpreter core of cpu.py (class Cpu) together   *)
(* with the arithmetic helpers of bit_math.py and the host events of       *)
(* chip8.py that touch the interpreter (keypad flags, the clock).          *)
(*                                                                         *)
(* Python lists are modelled with their Python semantics: an index below   *)
(* zero counts from the end, an index outside the list raises IndexError,  *)
(* a slice assignment may change the length of the list, a dictionary      *)
(* lookup of a missing key raises KeyError.  An exception leaves every     *)
(* assignment made before it in place; err records how the last            *)
(* execute_cycle ended.                                                    *)
(***************************************************************************)
EXTENDS Integers, Sequences, FiniteSets, TLC

VARIABLES
    \* The attributes of Cpu.
    memory, opcode, V, I, delay_timer, sound_timer, last_timer_decrement,
    pc, stack, sp, keypad, display, draw_flag,
    \* How the last execute_cycle ended: "none", or the exception it raised.
    err,
    \* What time() returns, in clock ticks.
    now,
    \* The time of the last execute_cycle in which decrement_timers lowered
    \* a timer, or -1 before the first.
    decremented_at,
    \* The time of the last execute_cycle, or -1 before the first.
    stepped_at,
    \* A unit test that drives the call and return handlers directly: the
    \* pc and sp it started from, and the calls and returns made so far.
    test_pc, test_sp, test_calls, test_returns,
    \* The registers as a unit test of arithmetic_operation sets them.
    test_V,
    \* The content of the file and the start address handed to
    \* load_file_to_memory.
    test_data, test_start

cpu_vars == <<memory, opcode, V, I, delay_timer, sound_timer,
              last_timer_decrement, pc, stack, sp, keypad, display,
              draw_flag>>

test_vars == <<test_pc, test_sp, test_calls, test_returns, test_V,
               test_data, test_start>>

vars == <<cpu_vars, err, now, decremented_at, stepped_at, test_vars>>

(***************************************************************************)
(* Program constants.                                                      *)
(***************************************************************************)
MemorySize == 4096
NumRegs == 16
StackSize == 16
NumKeys == 16
ProgramStart == 512
FontBase == 80
\* settings.py is not part of the sources at hand; the display is the
\* WIDTH x HEIGHT bitmap of the specification, 64 x 32 on this machine.
WIDTH == 64
HEIGHT == 32

(***************************************************************************)
(* Bounds of the model.                                                    *)
(***************************************************************************)
\* Clock ticks in one sixtieth of a second.
TicksPerPeriod == 2
\* The clock stops advancing here.
MaxTime == 4
\* Keys 0..MaxKey receive key events.
MaxKey == 0

(***************************************************************************)
(* bit_math.py                                                             *)
(***************************************************************************)
RECURSIVE Pow2(_)
Pow2(n) == IF n = 0 THEN 1 ELSE 2 * Pow2(n - 1)

\* x & mask for mask = 2^num_bits - 1, on Python's unbounded two's
\* complement integers: the residue of x modulo 2^num_bits.
AndMask(x, num_bits) == x % Pow2(num_bits)

\* Python's comparison results are the integers True = 1, False = 0 when
\* they are stored into a register.
PyBool(b) == IF b THEN 1 ELSE 0

\* add_flag with >= in the place of >.
add_flag_from_max(num_bits, x, y) == PyBool((x + y) >= Pow2(num_bits) - 1)

add_flag(num_bits, x, y) == PyBool((x + y) > Pow2(num_bits) - 1)

add(num_bits, x, y) ==
    <<AndMask(x + y, num_bits), add_flag(num_bits, x, y)>>

\* sub with > in the place of >=.
sub_strict(num_bits, x, y) ==
    <<AndMask(x - y, num_bits), PyBool((x - y) > 0)>>

sub(num_bits, x, y) ==
    <<AndMask(x - y, num_bits), PyBool((x - y) >= 0)>>

extract_bit(place, val) == AndMask(val, place + 1) \div Pow2(place)

\* The bitwise operators of Python on non-negative integers below 2^16.
RECURSIVE BitAnd(_, _)
BitAnd(a, b) ==
    IF a = 0 \/ b = 0 THEN 0
    ELSE ((a % 2) * (b % 2)) + 2 * BitAnd(a \div 2, b \div 2)

RECURSIVE BitOr(_, _)
BitOr(a, b) ==
    IF a = 0 THEN b
    ELSE IF b = 0 THEN a
    ELSE (IF a % 2 = 1 \/ b % 2 = 1 THEN 1 ELSE 0)
         + 2 * BitOr(a \div 2, b \div 2)

RECURSIVE BitXor(_, _)
BitXor(a, b) ==
    IF a = 0 THEN b
    ELSE IF b = 0 THEN a
    ELSE ((a + b) % 2) + 2 * BitXor(a \div 2, b \div 2)

ShiftRight(a, n) == a \div Pow2(n)
ShiftLeft(a, n) == a * Pow2(n)

(***************************************************************************)
(* Python lists.  memory is a sequence (cell a is memory[a + 1]); the      *)
(* fixed-size lists V, stack and keypad are functions on 0..15.            *)
(***************************************************************************)
\* The position a Python list of length len gives index i, or -1 when the
\* access raises IndexError.
PyIndex(len, i) ==
    IF i >= 0 /\ i < len THEN i
    ELSE IF i < 0 /\ i + len >= 0 THEN i + len
    ELSE -1

MemOk(m, a) == PyIndex(Len(m), a) >= 0
MemGet(m, a) == m[PyIndex(Len(m), a) + 1]
MemSet(m, a, v) == [m EXCEPT ![PyIndex(Len(m), a) + 1] = v]

\* m[lo : hi] = vals for 0 <= lo <= hi: the cells from lo up to hi that
\* exist are replaced by vals, whatever their number.
SliceAssign(m, lo, hi, vals) ==
    LET l == IF lo > Len(m) THEN Len(m) ELSE lo
        h == IF hi > Len(m) THEN Len(m) ELSE hi
    IN SubSeq(m, 1, l) \o vals \o SubSeq(m, h + 1, Len(m))

(***************************************************************************)
(* The machine state as one record, so that a handler is an operator from  *)
(* state to state.  Raise(s, e) is the state an exception e leaves behind. *)
(***************************************************************************)
State ==
    [memory |-> memory, opcode |-> opcode, V |-> V, I |-> I,
     delay_timer |-> delay_timer, sound_timer |-> sound_timer,
     last_timer_decrement |-> last_timer_decrement, pc |-> pc,
     stack |-> stack, sp |-> sp, keypad |-> keypad, display |-> display,
     draw_flag |-> draw_flag, err |-> err]

Raise(s, e) == [s EXCEPT !.err = e]

Failed(s) == s.err # "none"

ZeroDisplay == [x \in 0 .. WIDTH - 1 |-> [y \in 0 .. HEIGHT - 1 |-> 0]]

\* The fields of an instruction word.
Family(op) == ShiftRight(op, 12)
RegX(op) == ShiftRight(BitAnd(op, 3840), 8)
RegY(op) == ShiftRight(BitAnd(op, 240), 4)
Addr(op) == BitAnd(op, 4095)
LowByte(op) == BitAnd(op, 255)
LowNibble(op) == BitAnd(op, 15)

(***************************************************************************)
(* Opcode functions of cpu.py                                              *)
(***************************************************************************)
clear_display(s) == [s EXCEPT !.display = ZeroDisplay]

\* A return that reads the slot at sp, not the one below it.
return_from_subroutine_at_sp(s) ==
    LET top == PyIndex(StackSize, s.sp)
    IN IF top < 0 THEN Raise(s, "IndexError")
       ELSE [s EXCEPT !.pc = s.stack[top], !.sp = s.sp - 1]

return_from_subroutine(s) ==
    LET top == PyIndex(StackSize, s.sp - 1)
    IN IF top < 0 THEN Raise(s, "IndexError")
       ELSE [s EXCEPT !.pc = s.stack[top], !.sp = s.sp - 1]

clear_or_return(s) ==
    LET s1 == IF s.opcode = 224 THEN clear_display(s) ELSE s
    IN IF s1.opcode = 238 THEN return_from_subroutine(s1) ELSE s1

jump_to_address(s) == [s EXCEPT !.pc = Addr(s.opcode)]

\* A call that wraps around a full stack instead of raising.
jump_to_subroutine_wrapping(s) ==
    [s EXCEPT !.stack[s.sp % StackSize] = s.pc,
              !.sp = s.sp + 1,
              !.pc = Addr(s.opcode)]

jump_to_subroutine(s) ==
    LET slot == PyIndex(StackSize, s.sp)
    IN IF slot < 0 THEN Raise(s, "IndexError")
       ELSE [s EXCEPT !.stack[slot] = s.pc,
                      !.sp = s.sp + 1,
                      !.pc = Addr(s.opcode)]

skip_if_reg_equal_val(s) ==
    IF s.V[RegX(s.opcode)] = LowByte(s.opcode)
    THEN [s EXCEPT !.pc = s.pc + 2] ELSE s

skip_if_reg_not_equal_val(s) ==
    IF s.V[RegX(s.opcode)] # LowByte(s.opcode)
    THEN [s EXCEPT !.pc = s.pc + 2] ELSE s

skip_if_reg_equal_reg(s) ==
    IF s.V[RegX(s.opcode)] = s.V[RegY(s.opcode)]
    THEN [s EXCEPT !.pc = s.pc + 2] ELSE s

move_val_to_reg(s) == [s EXCEPT !.V[RegX(s.opcode)] = LowByte(s.opcode)]

\* add_val_to_reg with the carry of add stored into V[0xF].
add_val_to_reg_with_carry(s) ==
    LET reg == RegX(s.opcode)
        pair == add(8, s.V[reg], LowByte(s.opcode))
    IN [s EXCEPT !.V = [[s.V EXCEPT ![reg] = pair[1]] EXCEPT ![15] = pair[2]]]

add_val_to_reg(s) ==
    LET reg == RegX(s.opcode)
    IN [s EXCEPT !.V[reg] = add(8, s.V[reg], LowByte(s.opcode))[1]]

\* self.V[x], self.V[0xF] = pair: V[x] is assigned first, V[0xF] second.
AssignPair(s, x, pair) ==
    [s EXCEPT !.V = [[s.V EXCEPT ![x] = pair[1]] EXCEPT ![15] = pair[2]]]

move_reg_into_reg(s, x, y) == [s EXCEPT !.V[x] = s.V[y]]

or_reg_into_reg(s, x, y) == [s EXCEPT !.V[x] = BitOr(s.V[x], s.V[y])]

and_reg_into_reg(s, x, y) == [s EXCEPT !.V[x] = BitAnd(s.V[x], s.V[y])]

xor_reg_into_reg(s, x, y) == [s EXCEPT !.V[x] = BitXor(s.V[x], s.V[y])]

add_reg_into_reg(s, x, y) == AssignPair(s, x, add(8, s.V[x], s.V[y]))

sub_reg_into_reg(s, x, y) == AssignPair(s, x, sub(8, s.V[x], s.V[y]))

\* right_shift_reg with the two assignments in the other order.
right_shift_reg_then_flag(s, x, y) ==
    LET s1 == [s EXCEPT !.V[x] = ShiftRight(s.V[x], 1)]
    IN [s1 EXCEPT !.V[15] = BitAnd(s1.V[x], 1)]

right_shift_reg(s, x, y) ==
    LET s1 == [s EXCEPT !.V[15] = BitAnd(s.V[x], 1)]
    IN [s1 EXCEPT !.V[x] = ShiftRight(s1.V[x], 1)]

rsub_reg_into_reg(s, x, y) == AssignPair(s, x, sub(8, s.V[y], s.V[x]))

\* left_shift_reg without the mask of the shifted value.
left_shift_reg_unmasked(s, x, y) ==
    LET s1 == [s EXCEPT !.V[15] = ShiftRight(BitAnd(s.V[x], 128), 7)]
    IN [s1 EXCEPT !.V[x] = ShiftLeft(s1.V[x], 1)]

left_shift_reg(s, x, y) ==
    LET s1 == [s EXCEPT !.V[15] = ShiftRight(BitAnd(s.V[x], 128), 7)]
    IN [s1 EXCEPT !.V[x] = BitAnd(ShiftLeft(s1.V[x], 1), 255)]

\* The keys of arithmetic_operation_lookup.
ArithmeticKeys == {0, 1, 2, 3, 4, 5, 6, 7, 14}

arithmetic_operation(s) ==
    LET operation == LowNibble(s.opcode)
        x == RegX(s.opcode)
        y == RegY(s.opcode)
    IN CASE operation = 0 -> move_reg_into_reg(s, x, y)
         [] operation = 1 -> or_reg_into_reg(s, x, y)
         [] operation = 2 -> and_reg_into_reg(s, x, y)
         [] operation = 3 -> xor_reg_into_reg(s, x, y)
         [] operation = 4 -> add_reg_into_reg(s, x, y)
         [] operation = 5 -> sub_reg_into_reg(s, x, y)
         [] operation = 6 -> right_shift_reg(s, x, y)
         [] operation = 7 -> rsub_reg_into_reg(s, x, y)
         [] operation = 14 -> left_shift_reg(s, x, y)
         [] operation \notin ArithmeticKeys -> Raise(s, "KeyError")

skip_if_reg_not_equal_reg(s) ==
    IF s.V[RegX(s.opcode)] # s.V[RegY(s.opcode)]
    THEN [s EXCEPT !.pc = s.pc + 2] ELSE s

load_index_reg_with_val(s) == [s EXCEPT !.I = Addr(s.opcode)]

jump_to_address_plus_reg(s) ==
    [s EXCEPT !.pc = add(12, Addr(s.opcode), s.V[0])[1]]

\* rnd is the value randint(0, 255) returns.
generate_random_number(s, rnd) ==
    [s EXCEPT !.V[RegX(s.opcode)] = BitAnd(rnd, LowByte(s.opcode))]

\* DrawPixel with | in the place of ^.
DrawPixel_or(s, col, row, dy, dx) ==
    LET x == (col + dx) % WIDTH
        y == (row + dy) % HEIGHT
        bit == extract_bit(7 - dx, MemGet(s.memory, s.I + dy))
        s1 == IF s.display[x][y] = 1 /\ bit = 1
              THEN [s EXCEPT !.V[15] = 1] ELSE s
    IN [s1 EXCEPT !.display[x][y] = BitOr(s.display[x][y], bit)]

\* One pixel of display_sprite: the collision test, then the exclusive or.
DrawPixel(s, col, row, dy, dx) ==
    LET x == (col + dx) % WIDTH
        y == (row + dy) % HEIGHT
        bit == extract_bit(7 - dx, MemGet(s.memory, s.I + dy))
        s1 == IF s.display[x][y] = 1 /\ bit = 1
              THEN [s EXCEPT !.V[15] = 1] ELSE s
    IN [s1 EXCEPT !.display[x][y] = BitXor(s.display[x][y], bit)]

\* The loops of display_sprite from pixel (dy, dx) on.  The sprite row is
\* read from memory at every pixel; a row outside memory raises IndexError
\* with the rows before it drawn.
RECURSIVE DrawFrom(_, _, _, _, _, _)
DrawFrom(s, col, row, height, dy, dx) ==
    IF dy >= height THEN s
    ELSE IF dx >= 8 THEN DrawFrom(s, col, row, height, dy + 1, 0)
    ELSE IF ~MemOk(s.memory, s.I + dy) THEN Raise(s, "IndexError")
    ELSE DrawFrom(DrawPixel(s, col, row, dy, dx), col, row, height, dy, dx + 1)

\* display_sprite with self.draw_flag = True inside the loop over the rows.
display_sprite_flag_per_row(s) ==
    LET s1 == [s EXCEPT !.V[15] = 0]
        col == s1.V[RegX(s.opcode)]
        row == s1.V[RegY(s.opcode)]
        height == LowNibble(s.opcode)
        s2 == DrawFrom(s1, col, row, height, 0, 0)
    IN IF Failed(s2) \/ height = 0 THEN s2 ELSE [s2 EXCEPT !.draw_flag = TRUE]

display_sprite(s) ==
    LET s1 == [s EXCEPT !.V[15] = 0]
        col == s1.V[RegX(s.opcode)]
        row == s1.V[RegY(s.opcode)]
        height == LowNibble(s.opcode)
        s2 == DrawFrom(s1, col, row, height, 0, 0)
    IN IF Failed(s2) THEN s2 ELSE [s2 EXCEPT !.draw_flag = TRUE]

skip_if_key_pressed(s, key) ==
    LET k == PyIndex(NumKeys, key)
    IN IF k < 0 THEN Raise(s, "IndexError")
       ELSE IF s.keypad[k] # 0 THEN [s EXCEPT !.pc = s.pc + 2] ELSE s

skip_if_key_not_pressed(s, key) ==
    LET k == PyIndex(NumKeys, key)
    IN IF k < 0 THEN Raise(s, "IndexError")
       ELSE IF s.keypad[k] = 0 THEN [s EXCEPT !.pc = s.pc + 2] ELSE s

key_operation(s) ==
    LET operation == LowByte(s.opcode)
        reg == RegX(s.opcode)
        s1 == IF operation = 158 THEN skip_if_key_pressed(s, s.V[reg]) ELSE s
    IN IF Failed(s1) THEN s1
       ELSE IF operation = 161 THEN skip_if_key_not_pressed(s1, s1.V[reg])
       ELSE s1

move_delay_timer_into_reg(s, reg) == [s EXCEPT !.V[reg] = s.delay_timer]

\* wait_for_keypress that repeats the instruction until a key is pressed
\* and then stores the key.
wait_for_keypress_blocking(s, reg) ==
    IF \A k \in 0 .. NumKeys - 1 : s.keypad[k] = 0
    THEN [s EXCEPT !.pc = s.pc - 2]
    ELSE [s EXCEPT !.V[reg] =
             CHOOSE k \in 0 .. NumKeys - 1 :
                /\ s.keypad[k] # 0
                /\ \A j \in 0 .. k - 1 : s.keypad[j] = 0]

wait_for_keypress(s, reg) == s

move_reg_into_delay_timer(s, reg) == [s EXCEPT !.delay_timer = s.V[reg]]

move_reg_into_sound_timer(s, reg) == [s EXCEPT !.sound_timer = s.V[reg]]

\* add_reg_into_index with the sum stored unmasked.
add_reg_into_index_wide(s, reg) ==
    LET pair == add(12, s.I, s.V[reg])
    IN [s EXCEPT !.I = s.I + s.V[reg], !.V[15] = pair[2]]

add_reg_into_index(s, reg) ==
    LET pair == add(12, s.I, s.V[reg])
    IN [s EXCEPT !.I = pair[1], !.V[15] = pair[2]]

load_index_with_reg_sprite(s, reg) == [s EXCEPT !.I = FontBase + 5 * s.V[reg]]

\* [int(d) for d in str(v).zfill(3)]: the decimal digits of v, padded with
\* zeros on the left to three digits; a value of 1000 or more has more.
RECURSIVE Digits(_)
Digits(v) == IF v < 10 THEN <<v>> ELSE Digits(v \div 10) \o <<v % 10>>

\* ZFill3 without the padding.
ZFill3_unpadded(ds) == ds

ZFill3(ds) ==
    IF Len(ds) = 1 THEN <<0, 0>> \o ds
    ELSE IF Len(ds) = 2 THEN <<0>> \o ds
    ELSE ds

store_bcd_into_memory(s, reg) ==
    [s EXCEPT !.memory =
        SliceAssign(s.memory, s.I, s.I + 3, ZFill3(Digits(s.V[reg])))]

RECURSIVE StoreRegsFrom(_, _, _)
StoreRegsFrom(s, reg, i) ==
    IF i > reg THEN s
    ELSE IF ~MemOk(s.memory, s.I + i) THEN Raise(s, "IndexError")
    ELSE StoreRegsFrom([s EXCEPT !.memory = MemSet(s.memory, s.I + i, s.V[i])],
                       reg, i + 1)

\* store_regs_into_memory with range(reg) in the place of range(reg + 1).
store_regs_below(s, reg) == StoreRegsFrom(s, reg - 1, 0)

store_regs_into_memory(s, reg) == StoreRegsFrom(s, reg, 0)

RECURSIVE LoadRegsFrom(_, _, _)
LoadRegsFrom(s, reg, i) ==
    IF i > reg THEN s
    ELSE IF ~MemOk(s.memory, s.I + i) THEN Raise(s, "IndexError")
    ELSE LoadRegsFrom([s EXCEPT !.V[i] = MemGet(s.memory, s.I + i)],
                      reg, i + 1)

load_memory_into_regs(s, reg) == LoadRegsFrom(s, reg, 0)

\* The keys of misc_operation_lookup.
MiscKeys == {7, 10, 21, 24, 30, 41, 51, 85, 101}

misc_operation(s) ==
    LET operation == LowByte(s.opcode)
        reg == RegX(s.opcode)
    IN CASE operation = 7 -> move_delay_timer_into_reg(s, reg)
         [] operation = 10 -> wait_for_keypress(s, reg)
         [] operation = 21 -> move_reg_into_delay_timer(s, reg)
         [] operation = 24 -> move_reg_into_sound_timer(s, reg)
         [] operation = 30 -> add_reg_into_index(s, reg)
         [] operation = 41 -> load_index_with_reg_sprite(s, reg)
         [] operation = 51 -> store_bcd_into_memory(s, reg)
         [] operation = 85 -> store_regs_into_memory(s, reg)
         [] operation = 101 -> load_memory_into_regs(s, reg)
         [] operation \notin MiscKeys -> Raise(s, "KeyError")

\* operation_lookup[operation]()
Dispatch(s, rnd) ==
    LET operation == Family(s.opcode)
    IN CASE operation = 0 -> clear_or_return(s)
         [] operation = 1 -> jump_to_address(s)
         [] operation = 2 -> jump_to_subroutine(s)
         [] operation = 3 -> skip_if_reg_equal_val(s)
         [] operation = 4 -> skip_if_reg_not_equal_val(s)
         [] operation = 5 -> skip_if_reg_equal_reg(s)
         [] operation = 6 -> move_val_to_reg(s)
         [] operation = 7 -> add_val_to_reg(s)
         [] operation = 8 -> arithmetic_operation(s)
         [] operation = 9 -> skip_if_reg_not_equal_reg(s)
         [] operation = 10 -> load_index_reg_with_val(s)
         [] operation = 11 -> jump_to_address_plus_reg(s)
         [] operation = 12 -> generate_random_number(s, rnd)
         [] operation = 13 -> display_sprite(s)
         [] operation = 14 -> key_operation(s)
         [] operation = 15 -> misc_operation(s)

(***************************************************************************)
(* Misc functions of cpu.py                                                *)
(***************************************************************************)
\* t is the value time() returns, in clock ticks; 1.0/60 is TicksPerPeriod.
TimerDue(s, t) == t - s.last_timer_decrement >= TicksPerPeriod

\* decrement_timers without self.last_timer_decrement = now.
decrement_timers_unstamped(s, t) ==
    IF TimerDue(s, t)
    THEN [s EXCEPT
            !.delay_timer = IF s.delay_timer > 0 THEN s.delay_timer - 1
                            ELSE s.delay_timer,
            !.sound_timer = IF s.sound_timer > 0 THEN s.sound_timer - 1
                            ELSE s.sound_timer]
    ELSE s

decrement_timers(s, t) ==
    IF TimerDue(s, t)
    THEN [s EXCEPT
            !.delay_timer = IF s.delay_timer > 0 THEN s.delay_timer - 1
                            ELSE s.delay_timer,
            !.sound_timer = IF s.sound_timer > 0 THEN s.sound_timer - 1
                            ELSE s.sound_timer,
            !.last_timer_decrement = t]
    ELSE s

\* Whether the two bytes of the instruction at pc can be read.
CanFetch(s) == MemOk(s.memory, s.pc) /\ MemOk(s.memory, s.pc + 1)

Fetch(s) == ShiftLeft(MemGet(s.memory, s.pc), 8) + MemGet(s.memory, s.pc + 1)

\* Whether execute_cycle applies self.pc += 2 after the handler.
\* Advances with the family of 00EE among those that set pc themselves.
Advances_but_returns(operation) == operation \notin {0, 1, 2}

Advances(operation) == operation # 1 /\ operation # 2

\* execute_cycle up to the call of decrement_timers: fetch, dispatch and
\* the advance of pc; err is set when one of them raised.
before_timers(s, rnd) ==
    LET s0 == [s EXCEPT !.err = "none"]
    IN IF ~CanFetch(s0) THEN Raise(s0, "IndexError")
       ELSE LET s1 == [s0 EXCEPT !.opcode = Fetch(s0)]
                operation == Family(s1.opcode)
                s2 == Dispatch(s1, rnd)
            IN IF Failed(s2) THEN s2
               ELSE IF Advances(operation)
               THEN [s2 EXCEPT !.pc = s2.pc + 2] ELSE s2

\* execute_cycle: the state it leaves, with err set when it raised.
execute_cycle(s, rnd, t) ==
    LET m == before_timers(s, rnd)
    IN IF Failed(m) THEN m ELSE decrement_timers(m, t)

\* load_file_to_memory: data is the content of the file, a sequence of
\* bytes.  A cell outside memory raises IndexError with the cells before it
\* written.
RECURSIVE LoadFrom(_, _, _, _)
LoadFrom(s, data, start_address, i) ==
    IF i >= Len(data) THEN s
    ELSE IF ~MemOk(s.memory, start_address + i) THEN Raise(s, "IndexError")
    ELSE LoadFrom([s EXCEPT !.memory =
                      MemSet(s.memory, start_address + i, data[i + 1])],
                  data, start_address, i + 1)

\* load_file_to_memory of the part of the file that fits into memory.
load_file_clipped(s, data, start_address) ==
    LET fits == IF start_address + Len(data) > MemorySize
                THEN MemorySize - start_address ELSE Len(data)
    IN LoadFrom(s, SubSeq(data, 1, fits), start_address, 0)

load_file_to_memory(s, data, start_address) ==
    LoadFrom(s, data, start_address, 0)

(***************************************************************************)
(* Programs.  A ROM file is a sequence of bytes; the ROMs of the model are *)
(* written as instruction words, stored big-endian.                        *)
(***************************************************************************)
Bytes(words) ==
    [i \in 1 .. 2 * Len(words) |->
        IF i % 2 = 1 THEN words[(i + 1) \div 2] \div 256
        ELSE words[i \div 2] % 256]

\* 2200: a subroutine that calls itself.
RomCallSelf == <<8704>>

\* StackSize nested calls, call k at 0x200 + 4(k-1) with a return in the
\* word after it, then a return: the returns unwind the calls and go on.
RomCallChain ==
    [i \in 1 .. 2 * StackSize + 1 |->
        IF i % 2 = 1 /\ i < 2 * StackSize + 1
        THEN 8192 + ProgramStart + 2 * (i + 1)
        ELSE 238]

\* 1FFF: a jump to the last byte of memory.
RomJumpLast == <<8191>>

\* 6004 B202 0000 1206 1208: V0 = 4, jump to 0x202 + V0, then two loops.
RomJumpPlus == <<24580, 45570, 0, 4614, 4616>>

\* 0123 E0FF 8008: words without a handler of their own.
RomUndefined == <<291, 57599, 32776>>

\* F0FF
RomUndefinedMisc == <<61695>>

\* AFFF 6005 F155: store V0..V1 at the last byte of memory.
RomStoreLast == <<45055, 24581, 61781>>

\* AFFE 607B F033 1206: the digits of 123 at 0xFFE, then a loop.
RomBcdLast == <<45054, 24699, 61491, 4614>>

\* 6003 F015 F018 1206: both timers to 3, then a loop.
RomTimers == <<24579, 61461, 61464, 4614>>

\* 6055 F00A 1204: V0 = 0x55, wait for a key into V0, then a loop.
RomWaitKey == <<24661, 61450, 4612>>

\* 2204 1202 00EE: a call of the subroutine at 0x204, which returns at
\* once, then a loop.
RomCallReturn == <<8708, 4610, 238>>

\* 6005 3005 1204 4005 5010 9010 120C 6000 E09E E0A1 6010 E09E 1218 121A:
\* the six skips with V0 = 5, V1 = 0, then with key V0 = 0, then EX9E
\* with V0 = 0 or 16; the words skipped over are loops.
RomSkips ==
    <<24581, 12293, 4612, 16389, 20496, 36880, 4620, 24576, 57502, 57505,
      24592, 57502, 4632, 4634>>

\* A208 D001 00E0 1206 FF00: a row of eight pixels at (0, 0), a clear, a
\* loop; the sprite is the byte at 0x208.
RomDrawClear == <<41480, 53249, 224, 4614, 65280>>

\* 6F05 6103 A20A DF11 1208 FF00: VF = 5, V1 = 3, then a row of eight
\* pixels at (VF, V1) and a loop; the sprite is the byte at 0x20A.
RomDrawAtVF == <<28421, 24835, 41482, 57105, 4616, 65280>>

\* 603E 611F A20E D011 D012 D012 120C FF81: at (62, 31), where a sprite
\* wraps around both edges, one row, then twice the same two rows.
RomDrawTwice == <<24638, 24863, 41486, 53265, 53266, 53266, 4620, 65409>>

\* D000 1202: a sprite of no rows, then a loop.
RomDrawNothing == <<53248, 4610>>

\* 6011 6122 6233 6F44 AFF0 F255 F265 FF55 FF65 1212: V0..V2 stored at
\* 0xFF0 and loaded back, then V0..VF (up to 0xFFF), then a loop.
RomRoundTrip ==
    <<24593, 24866, 25139, 28484, 45040, 62037, 62053, 65365, 65381, 4626>>

\* 6FAA 60FF 7002 7F80 1208: VF = 0xAA, V0 = 0xFF, then V0 += 2 (which
\* overflows), VF += 0x80 (which overflows) and a loop.
RomAddImmediate == <<28586, 24831, 28674, 32640, 4616>>

\* 60FF AFF0 F01E F01E F029 120A: I = 0xFF0, then twice I += V0 (the first
\* goes past 0xFFF), then I = sprite of V0 and a loop.
RomAddIndex == <<24831, 45040, 61470, 61470, 61481, 4618>>

\* AFFD 607B F033 6009 F033 60FF F033 120E: the BCD of 123, 9 and 255 at
\* the last three cells of memory, then a loop.
RomBcd == <<45053, 24699, 61491, 24585, 61491, 24831, 61491, 4622>>

\* 60FF 6101 8014 8015 801E 8017 8016 60FF F015 F007 70FF 1216: a carry,
\* a borrow, both shifts, a timer loaded with 0xFF and read back, an add,
\* then a loop.
RomRanges ==
    <<24831, 24833, 32788, 32789, 32798, 32791, 32790, 24831, 61461, 61447,
      28927, 4630>>

Roms == {RomCallSelf, RomCallChain, RomJumpLast, RomJumpPlus, RomUndefined,
         RomUndefinedMisc, RomStoreLast, RomBcdLast, RomTimers, RomWaitKey,
         RomDrawClear, RomDrawAtVF, RomDrawTwice, RomDrawNothing,
         RomRoundTrip, RomAddImmediate, RomAddIndex, RomBcd, RomRanges,
         RomCallReturn, RomSkips}

(***************************************************************************)
(* The state after Cpu.__init__, and Chip8.__init__ loading a ROM.  The    *)
(* bytes of fontset.bin are not among the sources, and the cells at 0x050  *)
(* are left as Cpu.__init__ set them; no ROM of the model reads them.      *)
(***************************************************************************)
ZeroMemory == [a \in 1 .. MemorySize |-> 0]

\* Cpu.__init__, but for memory, pc and the stack.
NewCpu ==
    /\ opcode = 0
    /\ V = [r \in 0 .. NumRegs - 1 |-> 0]
    /\ I = 0
    /\ delay_timer = 0
    /\ sound_timer = 0
    /\ last_timer_decrement = now
    /\ keypad = [k \in 0 .. NumKeys - 1 |-> 0]
    /\ display = ZeroDisplay
    /\ draw_flag = FALSE

NoTest ==
    /\ test_pc = 0
    /\ test_sp = 0
    /\ test_calls = 0
    /\ test_returns = 0
    /\ test_V = [r \in 0 .. NumRegs - 1 |-> 0]
    /\ test_data = <<>>
    /\ test_start = 0

\* The memory of a new Cpu after load_file_to_memory(rom, 0x200).
RomImage(rom) ==
    load_file_to_memory([memory |-> ZeroMemory, err |-> "none"],
                        Bytes(rom), ProgramStart).memory

Init ==
    /\ now = 0
    /\ \E rom \in Roms : memory = RomImage(rom)
    /\ NewCpu
    /\ pc = ProgramStart
    /\ stack = [i \in 0 .. StackSize - 1 |-> 0]
    /\ sp = 0
    /\ err = "none"
    /\ decremented_at = -1
    /\ stepped_at = -1
    /\ NoTest

(***************************************************************************)
(* Actions                                                                 *)
(***************************************************************************)
\* The values randint(0, 255) may return to the instruction at pc; only
\* CXNN draws one.
RandomDraws(s) ==
    IF CanFetch(s) /\ Family(Fetch(s)) = 12 THEN 0 .. 255 ELSE {0}

\* Whether decrement_timers lowered a timer of m on the way to r.
Lowered(m, r) ==
    r.delay_timer < m.delay_timer \/ r.sound_timer < m.sound_timer

\* The attributes of the Cpu become those of r.
Becomes(r) ==
    /\ memory' = r.memory
    /\ opcode' = r.opcode
    /\ V' = r.V
    /\ I' = r.I
    /\ delay_timer' = r.delay_timer
    /\ sound_timer' = r.sound_timer
    /\ last_timer_decrement' = r.last_timer_decrement
    /\ pc' = r.pc
    /\ stack' = r.stack
    /\ sp' = r.sp
    /\ keypad' = r.keypad
    /\ display' = r.display
    /\ draw_flag' = r.draw_flag
    /\ err' = r.err

\* Chip8.run: self.cpu.execute_cycle()
ExecuteCycle ==
    \E rnd \in RandomDraws(State) :
        LET m == before_timers(State, rnd)
            r == execute_cycle(State, rnd, now)
        IN /\ Becomes(r)
           /\ decremented_at' = IF ~Failed(r) /\ Lowered(m, r) THEN now
                                ELSE decremented_at
           /\ stepped_at' = now
           /\ UNCHANGED <<now, test_vars>>

\* The clock advances between two calls of time().
Tick ==
    /\ now < MaxTime
    /\ now' = now + 1
    /\ UNCHANGED <<cpu_vars, err, decremented_at, stepped_at, test_vars>>

\* Chip8.events: KEYDOWN of a key of keypad_index.
KeyDown ==
    \E k \in 0 .. MaxKey :
        /\ keypad' = [keypad EXCEPT ![k] = 1]
        /\ UNCHANGED <<memory, opcode, V, I, delay_timer, sound_timer,
                       last_timer_decrement, pc, stack, sp, display,
                       draw_flag, err, now, decremented_at, stepped_at,
                       test_vars>>

\* Chip8.events: KEYUP of a key of keypad_index.
KeyUp ==
    \E k \in 0 .. MaxKey :
        /\ keypad' = [keypad EXCEPT ![k] = 0]
        /\ UNCHANGED <<memory, opcode, V, I, delay_timer, sound_timer,
                       last_timer_decrement, pc, stack, sp, display,
                       draw_flag, err, now, decremented_at, stepped_at,
                       test_vars>>

\* Chip8.run: the host consumes the draw flag and redraws the screen.
HostDraw ==
    /\ draw_flag
    /\ draw_flag' = FALSE
    /\ UNCHANGED <<memory, opcode, V, I, delay_timer, sound_timer,
                   last_timer_decrement, pc, stack, sp, keypad, display,
                   err, now, decremented_at, stepped_at, test_vars>>

Next == ExecuteCycle \/ Tick \/ KeyDown \/ KeyUp \/ HostDraw

Spec == Init /\ [][Next]_vars

(***************************************************************************)
(* The unit test of call and return (test_return_from_subroutine), for     *)
(* any start state, target and number of calls: the test sets pc and sp,   *)
(* calls jump_to_subroutine n times, then return_from_subroutine n times.  *)
(***************************************************************************)
\* The addresses the test starts from: 0x200 and 0x333.
TestAddresses == {512, 819}

\* The targets of the first call (0x0EE, 0xFFF) and of the calls after it.
TestTargets(calls) == IF calls = 0 THEN {238, 4095} ELSE {752}

InitTest ==
    /\ now = 0
    /\ memory = ZeroMemory
    /\ NewCpu
    /\ pc \in TestAddresses
    /\ sp \in -StackSize .. StackSize - 1
    /\ stack = [i \in 0 .. StackSize - 1 |-> 256 + i]
    /\ err = "none"
    /\ decremented_at = -1
    /\ stepped_at = -1
    /\ test_pc = pc
    /\ test_sp = sp
    /\ test_calls = 0
    /\ test_returns = 0
    /\ test_V = [r \in 0 .. NumRegs - 1 |-> 0]
    /\ test_data = <<>>
    /\ test_start = 0

TestCall ==
    /\ test_returns = 0
    /\ test_calls < StackSize
    /\ sp + 1 <= StackSize
    /\ \E nnn \in TestTargets(test_calls) :
          Becomes(jump_to_subroutine(
                     [State EXCEPT !.opcode = 8192 + nnn, !.err = "none"]))
    /\ test_calls' = test_calls + 1
    /\ UNCHANGED <<now, decremented_at, stepped_at, test_pc, test_sp,
                   test_returns, test_V, test_data, test_start>>

TestReturn ==
    /\ test_returns < test_calls
    /\ Becomes(return_from_subroutine(
                  [State EXCEPT !.opcode = 238, !.err = "none"]))
    /\ test_returns' = test_returns + 1
    /\ UNCHANGED <<now, decremented_at, stepped_at, test_pc, test_sp,
                   test_calls, test_V, test_data, test_start>>

NextTest == TestCall \/ TestReturn

SpecTest == InitTest /\ [][NextTest]_vars

(***************************************************************************)
(* The unit tests of arithmetic_operation (test_add_reg_into_reg_carry and  *)
(* the tests after it), for any pair of registers and operands at the      *)
(* edges of a byte: the test sets cpu.opcode to 8XYn and the registers,     *)
(* then calls arithmetic_operation once.                                   *)
(***************************************************************************)
\* The operations under test: 8XY4, 8XY5, 8XY6, 8XY7.
AluOps == {4, 5, 6, 7}

\* The values the tests store into registers.
Operands == {0, 1, 128, 255}

\* The values of VF before the call.
Flags == {0, 1}

\* self.cpu.V[0xF] = f; self.cpu.V[x] = a; self.cpu.V[y] = b, in this order.
TestRegs(x, y, a, b, f) ==
    [r \in 0 .. NumRegs - 1 |->
        IF r = y THEN b ELSE IF r = x THEN a ELSE IF r = 15 THEN f ELSE 0]

InitAlu ==
    /\ now = 0
    /\ memory = ZeroMemory
    /\ \E x, y \in 0 .. NumRegs - 1, n \in AluOps :
          opcode = 32768 + 256 * x + 16 * y + n
    /\ \E a, b \in Operands, f \in Flags :
          V = TestRegs(RegX(opcode), RegY(opcode), a, b, f)
    /\ I = 0
    /\ delay_timer = 0
    /\ sound_timer = 0
    /\ last_timer_decrement = now
    /\ pc = ProgramStart
    /\ stack = [i \in 0 .. StackSize - 1 |-> 0]
    /\ sp = 0
    /\ keypad = [k \in 0 .. NumKeys - 1 |-> 0]
    /\ display = ZeroDisplay
    /\ draw_flag = FALSE
    /\ err = "none"
    /\ decremented_at = -1
    /\ stepped_at = -1
    /\ test_pc = pc
    /\ test_sp = sp
    /\ test_calls = 0
    /\ test_returns = 0
    /\ test_V = V
    /\ test_data = <<>>
    /\ test_start = 0

\* self.cpu.arithmetic_operation()
TestArithmetic ==
    /\ test_calls = 0
    /\ Becomes(arithmetic_operation(State))
    /\ test_calls' = 1
    /\ UNCHANGED <<now, decremented_at, stepped_at, test_pc, test_sp,
                   test_returns, test_V, test_data, test_start>>

NextAlu == TestArithmetic

SpecAlu == InitAlu /\ [][NextAlu]_vars

(***************************************************************************)
(* load_file_to_memory called on a Cpu whose memory holds a program, as     *)
(* Chip8.__init__ calls it twice in a row, for any short file and any      *)
(* start address at the edges of memory.                                   *)
(***************************************************************************)
\* The longest file loaded.
MaxFileLen == 3

\* The bytes of the files.
FileBytes == {1, 255}

TestFiles ==
    UNION {[1 .. n -> FileBytes] : n \in 0 .. MaxFileLen}

\* The start addresses: 0x000, 0x050, 0x200 and the last cells of memory,
\* up to the address after the last.
TestStarts ==
    {0, FontBase, ProgramStart} \cup (MemorySize - MaxFileLen .. MemorySize)

InitLoad ==
    /\ now = 0
    /\ memory \in {RomImage(RomCallChain), RomImage(RomRoundTrip)}
    /\ NewCpu
    /\ pc = ProgramStart
    /\ stack = [i \in 0 .. StackSize - 1 |-> 0]
    /\ sp = 0
    /\ err = "none"
    /\ decremented_at = -1
    /\ stepped_at = -1
    /\ test_pc = pc
    /\ test_sp = sp
    /\ test_calls = 0
    /\ test_returns = 0
    /\ test_V = V
    /\ test_data \in TestFiles
    /\ test_start \in TestStarts

\* self.cpu.load_file_to_memory(rom, start_address)
TestLoad ==
    /\ test_calls = 0
    /\ Becomes(load_file_to_memory(State, test_data, test_start))
    /\ test_calls' = 1
    /\ UNCHANGED <<now, decremented_at, stepped_at, test_pc, test_sp,
                   test_returns, test_V, test_data, test_start>>

NextLoad == TestLoad

SpecLoad == InitLoad /\ [][NextLoad]_vars

(***************************************************************************)
(* Properties                                                              *)
(***************************************************************************)
\* The instruction word at pc, when it can be fetched.
AtPc == Fetch(State)

\* C1: a return (00EE) executed with an empty stack (sp = 0) fails: the
\* step reports an error, and neither sets pc from a stack slot nor
\* lowers sp.
C1_ReturnOnEmptyStackFails ==
    [][(ExecuteCycle /\ CanFetch(State) /\ AtPc = 238 /\ sp = 0)
          => (err' # "none" /\ pc' = pc /\ sp' = sp)]_vars

\* C2: a call (2NNN) executed with sp = 16 fails and overwrites nothing:
\* after it every stack slot, sp and pc hold their values from before.
C2_CallOnFullStackFails ==
    [][(ExecuteCycle /\ CanFetch(State) /\ Family(AtPc) = 2 /\ sp = StackSize)
          => (err' # "none" /\ stack' = stack /\ sp' = sp /\ pc' = pc)]_vars

\* A call has just failed on a full stack.
C2_Witness ==
    /\ sp = StackSize
    /\ err = "IndexError"
    /\ CanFetch(State)
    /\ Family(AtPc) = 2
    /\ opcode = AtPc

\* C3: in every state reachable by execute_cycle calls, 0 <= sp <= 16.
C3_StackPointerInRange == sp \in 0 .. StackSize

\* C4: call/return balance.  For any n in 1..16 and any start state with
\* sp + n <= 16, n calls followed by n returns leave pc and sp at their
\* values before the first call, and none of them raises.
C4_CallReturnBalance ==
    (test_calls >= 1 /\ test_returns = test_calls)
        => (pc = test_pc /\ sp = test_sp /\ err = "none")

\* Sixteen calls from an empty stack, then sixteen returns.
C4_Witness ==
    /\ test_calls = StackSize
    /\ test_returns = StackSize
    /\ test_sp = 0
    /\ test_pc = 819

\* C5: in every state reachable from pc = 0x200, pc is even and lies in
\* 0..4094.
C5_PcAlignedInRange == pc % 2 = 0 /\ pc \in 0 .. MemorySize - 2

\* C6: a step that executes BNNN ends with pc = (nnn + V[0]) mod 4096: the
\* overflow bit is dropped and pc is not advanced by 2 after the jump.
C6_JumpPlusRegisterExact ==
    [][(ExecuteCycle /\ CanFetch(State) /\ Family(AtPc) = 11)
          => pc' = (Addr(AtPc) + V[0]) % MemorySize]_vars

\* The instruction words the specification gives no handler: 0NNN other
\* than 00E0 and 00EE, 8XYn with n outside 0..7 and E, EXnn with nn
\* outside 9E and A1, FXnn with nn outside the nine defined low bytes.
Undefined(op) ==
    \/ Family(op) = 0 /\ op \notin {224, 238}
    \/ Family(op) = 8 /\ LowNibble(op) \notin ArithmeticKeys
    \/ Family(op) = 14 /\ LowByte(op) \notin {158, 161}
    \/ Family(op) = 15 /\ LowByte(op) \notin MiscKeys

\* C7: a step whose instruction word has no defined handler fails; it
\* does not complete as a no-op.
C7_UndefinedWordFails ==
    [][(ExecuteCycle /\ CanFetch(State) /\ Undefined(AtPc))
          => err' # "none"]_vars

\* C8: a step that fails leaves registers, I, pc, sp, stack, memory,
\* display and timers as they were before it.
C8_FailedStepChangesNothing ==
    [][(ExecuteCycle /\ err' # "none")
          => /\ V' = V
             /\ I' = I
             /\ pc' = pc
             /\ sp' = sp
             /\ stack' = stack
             /\ memory' = memory
             /\ display' = display
             /\ delay_timer' = delay_timer
             /\ sound_timer' = sound_timer]_vars

\* C9: memory has exactly 4096 cells in every reachable state.
C9_MemoryFixedSize == Len(memory) = MemorySize

\* C10: with the clock read once per step, decrement_timers lowers a timer
\* by exactly 1 or not at all, never below 0, and two steps in which it
\* lowers a timer are at least one sixtieth of a second apart, however
\* many steps run between them.
C10_TimerDecay ==
    [][ExecuteCycle =>
          LET m == before_timers(State, 0)
          IN Failed(m) \/
             /\ delay_timer' \in {m.delay_timer, m.delay_timer - 1}
             /\ sound_timer' \in {m.sound_timer, m.sound_timer - 1}
             /\ delay_timer' >= 0
             /\ sound_timer' >= 0
             /\ (delay_timer' < m.delay_timer \/ sound_timer' < m.sound_timer)
                   => (decremented_at = -1
                       \/ now - decremented_at >= TicksPerPeriod)]_vars

\* Both timers, loaded with 3, have been lowered twice.
C10_Witness ==
    /\ delay_timer = 1
    /\ sound_timer = 1
    /\ decremented_at > TicksPerPeriod
    /\ err = "none"

\* The whole 1/60 s periods elapsed since the previous step.
PeriodsSinceStep == (now - stepped_at) \div TicksPerPeriod

DecayedBy(v, k) == IF v - k > 0 THEN v - k ELSE 0

\* The instruction of the step succeeds and stores into neither timer.
KeepsTimers ==
    LET m == before_timers(State, 0)
    IN /\ ~Failed(m)
       /\ m.delay_timer = delay_timer
       /\ m.sound_timer = sound_timer

WaitsForKey ==
    /\ CanFetch(State)
    /\ Family(AtPc) = 15
    /\ LowByte(AtPc) = 10
    /\ \A k \in 0 .. NumKeys - 1 : keypad[k] = 0

\* C12: a step at FX0A while no key is pressed does not move pc.
C12_WaitForKeyBlocks ==
    [][(ExecuteCycle /\ WaitsForKey) => pc' = pc]_vars

\* C13: a step that executes 00E0 leaves every display cell 0 and the
\* display-changed flag raised.
C13_ClearRaisesDrawFlag ==
    [][(ExecuteCycle /\ CanFetch(State) /\ AtPc = 224)
          => (display' = ZeroDisplay /\ draw_flag' = TRUE)]_vars

\* The step fetches a DXYN word.
DrawsSprite == CanFetch(State) /\ Family(AtPc) = 13

\* Sprite bit (7 - dx) of memory[I + dy], as the instruction finds it.
SpriteBit(dy, dx) == extract_bit(7 - dx, MemGet(memory, I + dy))

\* The display after XOR-ing an n-row sprite at base (bx, by): cell (cx, cy)
\* is the target of sprite bit (dy, dx) iff it is dx columns to the right
\* of bx and dy rows below by, both counted around the screen edges.
SpriteXor(bx, by, n) ==
    [cx \in 0 .. WIDTH - 1 |->
        [cy \in 0 .. HEIGHT - 1 |->
            LET dx == (cx - bx) % WIDTH
                dy == (cy - by) % HEIGHT
            IN IF dx < 8 /\ dy < n
               THEN (display[cx][cy] + SpriteBit(dy, dx)) % 2
               ELSE display[cx][cy]]]

\* 1 iff some target cell holds 1 while its incoming sprite bit is 1.
SpriteCollides(bx, by, n) ==
    IF \E dy \in 0 .. n - 1, dx \in 0 .. 7 :
          /\ display[(bx + dx) % WIDTH][(by + dy) % HEIGHT] = 1
          /\ SpriteBit(dy, dx) = 1
    THEN 1 ELSE 0

\* C14: a successful DXYN step XORs the sprite at I into the cells at base
\* (V[x], V[y]), the values the registers hold before the instruction,
\* leaves every other cell unchanged and ends with VF = 1 iff a target cell
\* held 1 while its sprite bit was 1.
C14_DrawAtRegisterCoordinates ==
    [][(ExecuteCycle /\ DrawsSprite /\ err' = "none")
          => LET bx == V[RegX(AtPc)]
                 by == V[RegY(AtPc)]
                 n == LowNibble(AtPc)
             IN /\ display' = SpriteXor(bx, by, n)
                /\ V'[15] = SpriteCollides(bx, by, n)]_vars

\* The state a step leaves behind (the instruction of interest draws no
\* random number).
AfterStep == execute_cycle(State, 0, now)

\* C15: when a DXYN step is followed by a step of the same DXYN word, with
\* the same I, the same sprite bytes and the same V[x] and V[y], the second
\* step restores every display cell to its value before the first.
C15_DrawTwiceRestores ==
    [][(ExecuteCycle /\ DrawsSprite /\ err' = "none"
          /\ CanFetch(AfterStep) /\ Fetch(AfterStep) = AtPc
          /\ AfterStep.I = I /\ AfterStep.memory = memory
          /\ AfterStep.V[RegX(AtPc)] = V[RegX(AtPc)]
          /\ AfterStep.V[RegY(AtPc)] = V[RegY(AtPc)])
          => LET again == execute_cycle(AfterStep, 0, now)
             IN ~Failed(again) /\ again.display = display]_vars

\* D012 at (62, 31) has run twice after D011: the row at the bottom edge,
\* wrapped over the right edge, is lit again and the row at the top is dark.
C15_Witness ==
    /\ opcode = 53266
    /\ pc = 524
    /\ err = "none"
    /\ display[62][31] = 1
    /\ display[5][31] = 1
    /\ display[62][0] = 0
    /\ display[5][0] = 0
    /\ V[15] = 1

\* C16: a successful DXYN step ends with the display-changed flag raised,
\* whatever n is, and the only step that lowers a raised flag is the host's
\* redraw.
C16_DrawFlagRaisedUntilConsumed ==
    [][/\ (ExecuteCycle /\ DrawsSprite /\ err' = "none") => draw_flag'
       /\ (draw_flag /\ ~draw_flag') => HostDraw]_vars

\* D000 has run: nothing is lit and the flag is raised.
C16_Witness ==
    /\ opcode = 53248
    /\ err = "none"
    /\ display = ZeroDisplay
    /\ draw_flag

\* The step fetches FX55 (op = 85) or FX65 (op = 101) with I + x <= 4095.
MovesRegs(s, op) ==
    /\ CanFetch(s)
    /\ Family(Fetch(s)) = 15
    /\ LowByte(Fetch(s)) = op
    /\ s.I + RegX(Fetch(s)) <= MemorySize - 1

\* C17: FX55 and FX65 with I + k <= 4095 change neither I nor a register
\* above Vk, and when FX55 is followed by FX65 with the same k, V0..Vk are
\* afterwards what they were before the store.
C17_RegisterRoundTrip ==
    [][ExecuteCycle =>
          LET k == RegX(AtPc)
              loaded == execute_cycle(AfterStep, 0, now)
          IN /\ (MovesRegs(State, 85) \/ MovesRegs(State, 101))
                  => /\ err' = "none"
                     /\ I' = I
                     /\ \A i \in k + 1 .. NumRegs - 1 : V'[i] = V[i]
             /\ (MovesRegs(State, 85) /\ MovesRegs(AfterStep, 101)
                   /\ RegX(Fetch(AfterStep)) = k)
                  => /\ ~Failed(loaded)
                     /\ loaded.I = I
                     /\ \A i \in 0 .. NumRegs - 1 : loaded.V[i] = V[i]]_vars

\* FF55 and FF65 have run at I = 0xFF0: the sixteen registers are in the
\* last sixteen cells of memory and hold their values.
C17_Witness ==
    /\ opcode = 65381
    /\ err = "none"
    /\ I = 4080
    /\ V[0] = 17 /\ V[2] = 51 /\ V[15] = 68
    /\ MemGet(memory, 4082) = 51
    /\ MemGet(memory, 4095) = 68

\* A unit test has called arithmetic_operation with operation n.
Tested(n) == test_calls = 1 /\ LowNibble(opcode) = n

\* The operands of the operation under test, as the test set them.
TestX == test_V[RegX(opcode)]
TestY == test_V[RegY(opcode)]

\* C18: after 8XY4, for every x and y, VF is 1 iff V[x] + V[y] > 255 before
\* the operation and 0 otherwise (also when x = F), and for x # F V[x] is
\* (V[x] + V[y]) mod 256; add(8, a, b) is ((a + b) mod 256, (a + b) > 255).
C18_AddRegisters ==
    Tested(4) =>
        /\ err = "none"
        /\ V[15] = (IF TestX + TestY > 255 THEN 1 ELSE 0)
        /\ RegX(opcode) # 15 => V[RegX(opcode)] = (TestX + TestY) % 256
        /\ add(8, TestX, TestY)
             = <<(TestX + TestY) % 256, IF TestX + TestY > 255 THEN 1 ELSE 0>>

\* 8FY4 with VF = 255 and V[y] = 1: the sum is 0 modulo 256 and VF ends as
\* the carry.
C18_Witness ==
    /\ Tested(4)
    /\ RegX(opcode) = 15
    /\ RegY(opcode) # 15
    /\ TestX = 255
    /\ TestY = 1
    /\ V[15] = 1

\* The minuend and the subtrahend of 8XY5 (V[x] - V[y]) and of 8XY7
\* (V[y] - V[x]), as the test set them.
Minuend == IF LowNibble(opcode) = 5 THEN TestX ELSE TestY
Subtrahend == IF LowNibble(opcode) = 5 THEN TestY ELSE TestX

\* C19, as stated: after 8XY5 and after 8XY7, for every x, V[x] is the
\* difference mod 256 and VF is 1 iff the minuend was >= the subtrahend.
C19_SubtractSetsDifferenceAndFlag ==
    (Tested(5) \/ Tested(7)) =>
        /\ err = "none"
        /\ V[RegX(opcode)] = (Minuend - Subtrahend) % 256
        /\ V[15] = (IF Minuend >= Subtrahend THEN 1 ELSE 0)

\* C19, amended: after 8XY5 and after 8XY7, for every x, VF is 1 iff the
\* minuend was >= the subtrahend (no borrow) and 0 otherwise, and for
\* x # F V[x] is the difference mod 256; for x = F the flag write prevails.
C19_SubtractFlagPrevails ==
    (Tested(5) \/ Tested(7)) =>
        /\ err = "none"
        /\ V[15] = (IF Minuend >= Subtrahend THEN 1 ELSE 0)
        /\ RegX(opcode) # 15 => V[RegX(opcode)] = (Minuend - Subtrahend) % 256

\* 8FY5 with VF = 0 and V[y] = 1: the difference is 255 and VF ends as the
\* flag of a borrow, 0.
C19_Witness ==
    /\ Tested(5)
    /\ RegX(opcode) = 15
    /\ RegY(opcode) # 15
    /\ TestX = 0
    /\ TestY = 1
    /\ V[15] = 0

\* C20: after 8XY6 with x # F, VF is the least-significant bit of V[x]
\* before the operation and V[x] is that value shifted right by one; with
\* x = F, the flag is written first and shifted second, so VF ends as 0.
C20_ShiftRightCapturesBit ==
    Tested(6) =>
        /\ err = "none"
        /\ RegX(opcode) # 15 =>
              /\ V[15] = TestX % 2
              /\ V[RegX(opcode)] = TestX \div 2
        /\ RegX(opcode) = 15 => V[15] = 0

\* 8FY6 with VF = 255 has left VF = 0.
C20_Witness ==
    /\ Tested(6)
    /\ RegX(opcode) = 15
    /\ TestX = 255
    /\ V[15] = 0

StepsFamily(f) == ExecuteCycle /\ CanFetch(State) /\ Family(AtPc) = f

\* The step fetches the word FXnn with the low byte op.
StepsMisc(op) == StepsFamily(15) /\ LowByte(AtPc) = op

\* C21: a 7XNN step sets V[x] to (V[x] + nn) mod 256 and changes no other
\* register (VF included, for x # F, also when the sum overflows), and
\* nothing else but pc, which advances by 2.
C21_AddImmediateFrame ==
    [][StepsFamily(7) =>
          LET x == RegX(AtPc)
          IN /\ err' = "none"
             /\ V' = [V EXCEPT ![x] = (V[x] + LowByte(AtPc)) % 256]
             /\ x # 15 => V'[15] = V[15]
             /\ pc' = pc + 2
             /\ UNCHANGED <<memory, I, stack, sp, keypad, display,
                            draw_flag>>]_vars

\* 7002 has run with V0 = 0xFF and VF = 0xAA: V0 is 1 and VF is as before.
C21_Witness ==
    /\ opcode = 28674
    /\ err = "none"
    /\ V[0] = 1
    /\ V[15] = 170

\* C22: an FX1E step sets I to (I + V[x]) mod 4096 and VF to 1 iff
\* I + V[x] > 4095 before it, else 0; and every step leaves I in 0..4095.
C22_AddToIndex ==
    [][ExecuteCycle =>
          /\ I' \in 0 .. MemorySize - 1
          /\ StepsMisc(30) =>
                /\ err' = "none"
                /\ I' = (I + V[RegX(AtPc)]) % MemorySize
                /\ V'[15] = (IF I + V[RegX(AtPc)] > MemorySize - 1
                             THEN 1 ELSE 0)]_vars

\* F01E has run with I = 0xFF0 and V0 = 0xFF: I is 0x0EF and VF is 1.
C22_Witness ==
    /\ opcode = 61470
    /\ err = "none"
    /\ V[0] = 255
    /\ I = 239
    /\ V[15] = 1

\* The hundreds, tens and units digit of v.
Bcd(v) == <<v \div 100, (v \div 10) % 10, v % 10>>

C24_RegistersAndTimersAreBytes ==
    /\ \A r \in 0 .. NumRegs - 1 : V[r] \in 0 .. 255
    /\ delay_timer \in 0 .. 255
    /\ sound_timer \in 0 .. 255

\* 801E has run with V0 = 0xFF: V0 is 0xFE and VF is the bit shifted out.
C24_Witness ==
    /\ opcode = 32798
    /\ err = "none"
    /\ V[0] = 254
    /\ V[15] = 1

IsSkip(op) ==
    \/ Family(op) \in {3, 4}
    \/ Family(op) \in {5, 9} /\ LowNibble(op) = 0
    \/ Family(op) = 14 /\ LowByte(op) \in {158, 161}

\* The key whose index is in V[x] is pressed.
KeyPressed(op) ==
    V[RegX(op)] \in 0 .. NumKeys - 1 /\ keypad[V[RegX(op)]] # 0

\* The condition of the skip instruction op in the current state; each of
\* 4XNN, 9XY0 and EXA1 is the negation of 3XNN, 5XY0 and EX9E.
SkipCondition(op) ==
    CASE Family(op) = 3 -> V[RegX(op)] = LowByte(op)
      [] Family(op) = 4 -> ~(V[RegX(op)] = LowByte(op))
      [] Family(op) = 5 -> V[RegX(op)] = V[RegY(op)]
      [] Family(op) = 9 -> ~(V[RegX(op)] = V[RegY(op)])
      [] Family(op) = 14 /\ LowByte(op) = 158 -> KeyPressed(op)
      [] Family(op) = 14 /\ LowByte(op) = 161 -> ~KeyPressed(op)
      [] OTHER -> FALSE

\* C27: a step of a skip instruction ends with pc + 4 when the condition
\* of the instruction holds and with pc + 2 otherwise, and changes no
\* register, memory cell, stack slot or keypad flag.
C27_SkipsAdvanceByTwoOrFour ==
    [][(ExecuteCycle /\ CanFetch(State) /\ IsSkip(AtPc)) =>
          /\ err' = "none"
          /\ pc' = pc + (IF SkipCondition(AtPc) THEN 4 ELSE 2)
          /\ UNCHANGED <<V, memory, stack, keypad>>]_vars

\* C28: a 2NNN step at address a with room on the stack pushes a and goes
\* to nnn; a 00EE step with sp >= 1 ends with pc = stack[sp - 1] + 2 and
\* sp one lower; so when the subroutine returns at once, the return step
\* ends with pc = a + 2 and sp as before the call.
C28_ReturnResumesAfterCall ==
    [][ExecuteCycle =>
          /\ (StepsFamily(2) /\ sp \in 0 .. StackSize - 1) =>
                /\ err' = "none"
                /\ stack' = [stack EXCEPT ![sp] = pc]
                /\ sp' = sp + 1
                /\ pc' = Addr(AtPc)
          /\ (CanFetch(State) /\ AtPc = 238 /\ sp \in 1 .. StackSize) =>
                /\ err' = "none"
                /\ pc' = stack[sp - 1] + 2
                /\ sp' = sp - 1
          /\ (StepsFamily(2) /\ sp \in 0 .. StackSize - 1
                /\ CanFetch(AfterStep) /\ Fetch(AfterStep) = 238) =>
                LET returned == execute_cycle(AfterStep, 0, now)
                IN /\ ~Failed(returned)
                   /\ returned.pc = pc + 2
                   /\ returned.sp = sp]_vars

\* The call at 0x200 of RomCallReturn has returned: pc is 0x202, the stack
\* is empty and its first slot holds the address of the call.
C28_Witness ==
    /\ opcode = 238
    /\ err = "none"
    /\ pc = ProgramStart + 2
    /\ sp = 0
    /\ stack[0] = ProgramStart
    /\ MemGet(memory, ProgramStart + 1) = 4

====
